---- MODULE Spec2Model ----
(***************************************************************************)
(* Model of BM_Validation1.py: a Streamlit dashboard that loads a          *)
(* "composite" and a "block" dataset, maps their columns to the roles      *)
(* x, y, z and grade, computes a statistics record for each and compares   *)
(* the two records.                                                        *)
(*                                                                         *)
(* Two specifications are defined over the same variables:                 *)
(*   Spec    the session: every action is one complete run of the script   *)
(*           triggered by one user interaction;                            *)
(*   SpecFn  the pure computations (column guess, calculate_statistics,    *)
(*           comparison deltas) applied to inputs drawn from bounded sets. *)
(*                                                                         *)
(* Text is a sequence of one-character strings, so that lower() and the    *)
(* substring test of the source are computed, not assumed.  Numbers are    *)
(* exact: a finite number is a normalised fraction n/d, and the IEEE       *)
(* special values NaN, +inf and -inf that numpy produces are values of     *)
(* their own.  Rounding of binary floating point is not modelled.          *)
(***************************************************************************)
EXTENDS Integers, Sequences, FiniteSets, TLC

VARIABLES
    composite_data,     \* st.session_state.composite_data
    block_data,         \* st.session_state.block_data
    composite_columns,  \* st.session_state.composite_columns
    block_columns,      \* st.session_state.block_columns
    composite_stats,    \* st.session_state.composite_stats
    block_stats,        \* st.session_state.block_stats
    mapping,            \* st.session_state.mapping
    composite_file,     \* file held by the composite st.file_uploader
    block_file,         \* file held by the block st.file_uploader
    view,               \* what the last run of the script rendered
    fn_in,              \* SpecFn: the arguments of a pure computation
    fn_out              \* SpecFn: its result, once it has been applied

session == <<composite_data, block_data, composite_columns, block_columns,
             composite_stats, block_stats, mapping>>
widgets == <<composite_file, block_file>>
vars == <<composite_data, block_data, composite_columns, block_columns,
          composite_stats, block_stats, mapping, composite_file, block_file,
          view, fn_in, fn_out>>

\* Python's None.
None == [k |-> "none"]

(***************************************************************************)
(* Bounds of the model.                                                    *)
(***************************************************************************)
\* Largest number of columns of a column list given to the column guess.
MaxCols == 2
\* Largest number of rows of a dataset given to calculate_statistics.
MaxRows == 3
\* Largest number of select boxes the user moves off the guessed column
\* before a click on "Appliquer et analyser".
MaxEdits == 0
\* Largest number of rows of the two datasets whose records are compared.
MaxDeltaRows == 2
\* Largest scaled-down sample size given to the sampling of the 3D view.
MaxSample == 2

(***************************************************************************)
(* Text.                                                                   *)
(***************************************************************************)
UpperCase == <<"A","B","C","D","E","F","G","H","I","J","K","L","M",
               "N","O","P","Q","R","S","T","U","V","W","X","Y","Z">>
LowerCase == <<"a","b","c","d","e","f","g","h","i","j","k","l","m",
               "n","o","p","q","r","s","t","u","v","w","x","y","z">>

\* str.lower() on one character.
LowerChar(c) ==
    IF \E i \in 1..Len(UpperCase) : UpperCase[i] = c
    THEN LowerCase[CHOOSE i \in 1..Len(UpperCase) : UpperCase[i] = c]
    ELSE c

\* str.lower()
Lower(s) == [i \in 1..Len(s) |-> LowerChar(s[i])]

\* Python's `needle in hay` on strings.
Contains(hay, needle) ==
    \E i \in 0..(Len(hay) - Len(needle)) :
        SubSeq(hay, i + 1, i + Len(needle)) = needle

(***************************************************************************)
(* Column guess (lines 294-297 and 308-311).                               *)
(***************************************************************************)
KwX == {<<"x">>, <<"e","a","s","t">>}
KwY == {<<"y">>, <<"n","o","r","t","h">>}
KwZ == {<<"z">>, <<"e","l","e","v">>}
KwGrade == {<<"g","r","a","d","e">>, <<"t","e","n","e","u","r">>,
            <<"a","u">>, <<"c","u">>}

\* The condition of one generator expression: 'kw' in col.lower() or ...
Matches(col, kws) == \E kw \in kws : Contains(Lower(col), kw)

\* next((col for col in columns if <condition>), columns[0])
RECURSIVE NextFrom(_, _, _)
NextFrom(columns, kws, i) ==
    IF i > Len(columns) THEN columns[1]
    ELSE IF Matches(columns[i], kws) THEN columns[i]
    ELSE NextFrom(columns, kws, i + 1)

\* Variant: the last matching column instead of the first.
RECURSIVE LastFrom(_, _, _)
LastFrom(columns, kws, i) ==
    IF i < 1 THEN columns[1]
    ELSE IF Matches(columns[i], kws) THEN columns[i]
    ELSE LastFrom(columns, kws, i - 1)

NextMatchLast(columns, kws) == LastFrom(columns, kws, Len(columns))
NextMatch(columns, kws) == NextFrom(columns, kws, 1)

\* composite_x_col, composite_y_col, composite_z_col, composite_grade_col
CompositeGuess(columns) ==
    [x |-> NextMatch(columns, KwX), y |-> NextMatch(columns, KwY),
     z |-> NextMatch(columns, KwZ), grade |-> NextMatch(columns, KwGrade)]

\* block_x_col, block_y_col, block_z_col, block_grade_col
BlockGuess(columns) ==
    [x |-> NextMatch(columns, KwX), y |-> NextMatch(columns, KwY),
     z |-> NextMatch(columns, KwZ), grade |-> NextMatch(columns, KwGrade)]

Roles == {"x", "y", "z", "grade"}

(***************************************************************************)
(* Numbers.  A finite number is the fraction n/d in lowest terms, d > 0;   *)
(* NaN, +inf and -inf are the IEEE values numpy arithmetic produces.  The  *)
(* standard deviation is a square root: Sqrt gives a fraction when the     *)
(* radicand is the square of one, and the irrational value                 *)
(* [k |-> "sqrt"] otherwise.                                               *)
(***************************************************************************)
Abs(i) == IF i < 0 THEN -i ELSE i

RECURSIVE Gcd(_, _)
Gcd(a, b) == IF b = 0 THEN a ELSE Gcd(b, a % b)

\* n/d in lowest terms, for d > 0 and g the gcd of n and d.
Reduced(n, d, g) == [k |-> "num", n |-> n \div g, d |-> d \div g]
Frac(n, d) == Reduced(IF d < 0 THEN -n ELSE n, Abs(d), Gcd(Abs(n), Abs(d)))

Whole(i) == [k |-> "num", n |-> i, d |-> 1]
NaN == [k |-> "nan"]
PosInf == [k |-> "inf", s |-> 1]
NegInf == [k |-> "inf", s |-> -1]

IsNum(a) == a.k = "num"
IsNaN(a) == a.k = "nan"
IsZero(a) == a.k = "num" /\ a.n = 0

\* The sign of a value: 1, -1 or 0; NaN has none and is given 0 here, every
\* comparison with NaN being false.
Sign(a) ==
    CASE a.k = "num" -> (IF a.n > 0 THEN 1 ELSE IF a.n < 0 THEN -1 ELSE 0)
      [] a.k = "inf" -> a.s
      [] a.k = "sqrt" -> 1
      [] a.k = "dsqrt" -> (IF a.n > a.d THEN 1 ELSE -1)
      [] OTHER -> 0

\* a > 0 and a < 0 as Python evaluates them (False when a is NaN).
GtZero(a) == ~IsNaN(a) /\ Sign(a) = 1
LtZero(a) == ~IsNaN(a) /\ Sign(a) = -1

FAdd(a, b) == Frac(a.n * b.d + b.n * a.d, a.d * b.d)
FSub(a, b) == Frac(a.n * b.d - b.n * a.d, a.d * b.d)
\* The product of two fractions whose cross terms are already reduced.
CrossProduct(x, y) == Frac(x.n * y.n, x.d * y.d)
FMul(a, b) == CrossProduct(Frac(a.n, b.d), Frac(b.n, a.d))
FLe(a, b) == a.n * b.d <= b.n * a.d

\* a * b and a / b for finite or NaN a and b, b non-zero in a / b (the
\* products and quotients by the constants of calculate_statistics).
Times(a, b) == IF IsNaN(a) \/ IsNaN(b) THEN NaN ELSE FMul(a, b)
Over(a, b) == IF IsNaN(a) \/ IsNaN(b) THEN NaN ELSE FMul(a, Frac(b.d, b.n))

\* The largest r in lo..hi with r * r <= i, for lo * lo <= i.
RECURSIVE FloorRoot(_, _, _)
FloorRoot(i, lo, hi) ==
    IF lo >= hi THEN lo
    ELSE IF ((lo + hi + 1) \div 2) * ((lo + hi + 1) \div 2) <= i
    THEN FloorRoot(i, (lo + hi + 1) \div 2, hi)
    ELSE FloorRoot(i, lo, ((lo + hi + 1) \div 2) - 1)
\* 46340 is the largest root of a 32-bit square.
Root(i) == FloorRoot(i, 0, IF i < 46340 THEN i ELSE 46340)

\* The square root of the fraction n/d >= 0, given the floor roots of both.
SqrtWith(n, d, rn, rd) ==
    IF rn * rn = n /\ rd * rd = d THEN Frac(rn, rd)
    ELSE [k |-> "sqrt", n |-> n, d |-> d]
Sqrt(q) == SqrtWith(q.n, q.d, Root(q.n), Root(q.d))

\* The square of a finite value >= 0 (a fraction or a square root).
Squared(a) == IF a.k = "sqrt" THEN Frac(a.n, a.d) ELSE FMul(a, a)

(***************************************************************************)
(* Datasets.  A DataFrame is [k |-> "df", columns, data]: the ordered      *)
(* column names and, per column, the sequence of its cells.  A cell is a   *)
(* number, NaN (missing) or a string [k |-> "str", s].                     *)
(***************************************************************************)
Str(s) == [k |-> "str", s |-> s]
DataFrame(columns, data) == [k |-> "df", columns |-> columns, data |-> data]

\* len(df)
NRows(df) == IF Len(df.data) = 0 THEN 0 ELSE Len(df.data[1])

\* grade_column in df.columns
HasColumn(df, name) == \E i \in 1..Len(df.columns) : df.columns[i] = name
ColumnIndex(df, name) == CHOOSE i \in 1..Len(df.columns) : df.columns[i] = name
\* df[name]
Column(df, name) == df.data[ColumnIndex(df, name)]

Digits == <<"0","1","2","3","4","5","6","7","8","9">>
IsDigit(c) == \E i \in 1..10 : Digits[i] = c
DigitValue(c) == (CHOOSE i \in 1..10 : Digits[i] = c) - 1
AllDigits(s) == Len(s) > 0 /\ \A i \in 1..Len(s) : IsDigit(s[i])

RECURSIVE DigitsValue(_)
DigitsValue(s) ==
    IF Len(s) = 0 THEN 0
    ELSE 10 * DigitsValue(SubSeq(s, 1, Len(s) - 1)) + DigitValue(s[Len(s)])

RECURSIVE Pow10(_)
Pow10(i) == IF i = 0 THEN 1 ELSE 10 * Pow10(i - 1)

\* The unsigned decimal literals: digits, or digits "." digits.
IsUnsigned(s) ==
    \/ AllDigits(s)
    \/ \E i \in 2..(Len(s) - 1) :
          /\ s[i] = "."
          /\ AllDigits(SubSeq(s, 1, i - 1))
          /\ AllDigits(SubSeq(s, i + 1, Len(s)))
\* The value of digits "." digits with the point at position i.
DecimalValue(s, i) ==
    Frac(DigitsValue(SubSeq(s, 1, i - 1)) * Pow10(Len(s) - i)
            + DigitsValue(SubSeq(s, i + 1, Len(s))),
         Pow10(Len(s) - i))
UnsignedValue(s) ==
    IF \E j \in 1..Len(s) : s[j] = "."
    THEN DecimalValue(s, CHOOSE j \in 1..Len(s) : s[j] = ".")
    ELSE Whole(DigitsValue(s))

\* The text of a number without its sign, and the sign.
Unsign(s) == IF Len(s) > 1 /\ s[1] = "-" THEN Tail(s) ELSE s
Negate(a) == [a EXCEPT !.n = -a.n]

\* Whether a string reads as a number, and the number it reads as.
IsNumeric(s) == IsUnsigned(Unsign(s))
NumericValue(s) ==
    IF Unsign(s) = s THEN UnsignedValue(s) ELSE Negate(UnsignedValue(Tail(s)))

\* pd.to_numeric(..., errors='coerce') on one cell and on a column.
CoerceCell(cell) ==
    IF cell.k # "str" THEN cell
    ELSE IF IsNumeric(cell.s) THEN NumericValue(cell.s)
    ELSE NaN
ToNumeric(cells) == [i \in 1..Len(cells) |-> CoerceCell(cells[i])]

\* The non-missing values of a numeric column, in order.
RECURSIVE DropNa(_)
DropNa(cells) ==
    IF Len(cells) = 0 THEN <<>>
    ELSE IF IsNaN(cells[1]) THEN DropNa(Tail(cells))
    ELSE <<cells[1]>> \o DropNa(Tail(cells))

RECURSIVE SumOf(_)
SumOf(xs) == IF Len(xs) = 0 THEN Whole(0) ELSE FAdd(xs[1], SumOf(Tail(xs)))

\* Variant: the mean of no value taken as 0.
MeanOfNoneIsZero(xs) ==
    IF Len(xs) = 0 THEN Whole(0) ELSE FMul(SumOf(xs), Frac(1, Len(xs)))
\* The reductions over the values xs that are left; NaN when none is.
MeanOf(xs) == IF Len(xs) = 0 THEN NaN ELSE FMul(SumOf(xs), Frac(1, Len(xs)))
MinOf(xs) ==
    IF Len(xs) = 0 THEN NaN
    ELSE xs[CHOOSE i \in 1..Len(xs) : \A j \in 1..Len(xs) : FLe(xs[i], xs[j])]
MaxOf(xs) ==
    IF Len(xs) = 0 THEN NaN
    ELSE xs[CHOOSE i \in 1..Len(xs) : \A j \in 1..Len(xs) : FLe(xs[j], xs[i])]

\* (x - m) squared
SquaredDeviation(x, m) == CrossProduct(FSub(x, m), FSub(x, m))
SumOfSquares(xs, m) ==
    SumOf([i \in 1..Len(xs) |-> SquaredDeviation(xs[i], m)])
\* The standard deviation of xs about their mean m with ddof degrees of
\* freedom removed: NaN when the divisor is not positive.
StdOf(xs, m, ddof) ==
    IF Len(xs) - ddof < 1 THEN NaN
    ELSE Sqrt(FMul(SumOfSquares(xs, m), Frac(1, Len(xs) - ddof)))

\* Series.mean(), .min(), .max() and .std(), which is the sample standard
\* deviation (ddof = 1).
SeriesMean(cells) == MeanOf(DropNa(cells))
SeriesMin(cells) == MinOf(DropNa(cells))
SeriesMax(cells) == MaxOf(DropNa(cells))
\* Variant: the population standard deviation (ddof = 0).
SeriesStdPopulation(cells) == StdOf(DropNa(cells), SeriesMean(cells), 0)
SeriesStd(cells) == StdOf(DropNa(cells), SeriesMean(cells), 1)

(***************************************************************************)
(* calculate_statistics (lines 98-121).                                    *)
(***************************************************************************)
Composite == <<"c","o","m","p","o","s","i","t","e">>

\* Variant: metal_contenu from the composite tonnage in both branches.
StatsLiteralOneTonnage(comp, mean, min, max, std) ==
    [volume |-> IF comp THEN Whole(1250000) ELSE Whole(1275000),
     tonnage |-> IF comp THEN Whole(3375000) ELSE Whole(3442500),
     densite |-> Frac(27, 10),
     teneur_moyenne |-> mean,
     teneur_min |-> min,
     teneur_max |-> max,
     ecart_type |-> std,
     metal_contenu |-> Over(Times(Whole(3375000), mean), Whole(1000)),
     recuperation |-> IF comp THEN Frac(925, 10) ELSE Whole(91)]
\* Lines 107-117: the dict literal; comp is `"composite" in grade_column`,
\* the other arguments the reductions of the coerced column.
StatsLiteral(comp, mean, min, max, std) ==
    [volume |-> IF comp THEN Whole(1250000) ELSE Whole(1275000),
     tonnage |-> IF comp THEN Whole(3375000) ELSE Whole(3442500),
     densite |-> Frac(27, 10),
     teneur_moyenne |-> mean,
     teneur_min |-> min,
     teneur_max |-> max,
     ecart_type |-> std,
     metal_contenu |-> IF comp
                       THEN Over(Times(Whole(3375000), mean), Whole(1000))
                       ELSE Over(Times(Whole(3442500), mean), Whole(1000)),
     recuperation |-> IF comp THEN Frac(925, 10) ELSE Whole(91)]

\* Variant: the division by 100 left out.
WithMetalRecuperableNoPercent(stats) ==
    [f \in DOMAIN stats \cup {"metal_recuperable"} |->
        IF f = "metal_recuperable"
        THEN Times(stats.metal_contenu, stats.recuperation)
        ELSE stats[f]]
\* Line 119: stats["metal_recuperable"] = ...
WithMetalRecuperable(stats) ==
    [f \in DOMAIN stats \cup {"metal_recuperable"} |->
        IF f = "metal_recuperable"
        THEN Over(Times(stats.metal_contenu, stats.recuperation), Whole(100))
        ELSE stats[f]]

\* Variant: "composite" looked for in the lowercased name.
StatsOfIgnoreCase(cells, grade_column) ==
    WithMetalRecuperable(
        StatsLiteral(Contains(Lower(grade_column), Composite),
                     SeriesMean(cells), SeriesMin(cells), SeriesMax(cells),
                     SeriesStd(cells)))
\* Lines 104-121 on the cells of the grade column.
StatsOf(cells, grade_column) ==
    WithMetalRecuperable(
        StatsLiteral(Contains(grade_column, Composite),
                     SeriesMean(cells), SeriesMin(cells), SeriesMax(cells),
                     SeriesStd(cells)))

\* Variant: a missing column treated as a column without values.
CalculateStatisticsMissingAsEmpty(df, grade_column) ==
    IF df = None THEN None
    ELSE IF ~HasColumn(df, grade_column) THEN StatsOf(<<>>, grade_column)
    ELSE StatsOf(ToNumeric(Column(df, grade_column)), grade_column)
\* The value calculate_statistics returns.
CalculateStatistics(df, grade_column) ==
    IF df = None \/ ~HasColumn(df, grade_column) THEN None
    ELSE StatsOf(ToNumeric(Column(df, grade_column)), grade_column)

\* Variant: every column coerced.
CoerceColumnEvery(df, name) ==
    IF df = None \/ ~HasColumn(df, name) THEN df
    ELSE [df EXCEPT !.data = [c \in DOMAIN df.data |-> ToNumeric(df.data[c])]]
\* The DataFrame the caller holds once calculate_statistics has returned:
\* line 104 assigns the coerced column back into df.
CoerceColumn(df, name) ==
    IF df = None \/ ~HasColumn(df, name) THEN df
    ELSE [df EXCEPT !.data[ColumnIndex(df, name)] = ToNumeric(@)]

(***************************************************************************)
(* Comparison page: percentage differences (lines 470-481), their class    *)
(* (lines 484-490), the display (lines 449-462 and 492-524) and the        *)
(* report (lines 544-565).                                                 *)
(***************************************************************************)
\* A raised exception: the run of the script stops there.
Fault(what) == [k |-> "fault", what |-> what]
FaultKinds == {"ZeroDivisionError", "TypeError", "KeyError", "EmptyDataError"}
IsFault(a) == \E what \in FaultKinds : a = Fault(what)

\* The fields whose value is a numpy scalar (a reduction of the column, or
\* a product with one); the others are Python int and float literals.
NumpyFields == {"teneur_moyenne", "teneur_min", "teneur_max", "ecart_type",
                "metal_contenu", "metal_recuperable"}

\* b / c for finite b and c, c not zero.
Quotient(b, c) ==
    IF b.k = "sqrt" \/ c.k = "sqrt"
    THEN Sqrt(Over(Squared(b), Squared(c)))
    ELSE Over(b, c)

\* b / c on the values of field f: IEEE division on numpy scalars, which
\* raises nothing; ZeroDivisionError on Python numbers when c is zero.
Divide(f, b, c) ==
    IF IsZero(c) /\ f \notin NumpyFields THEN Fault("ZeroDivisionError")
    ELSE IF IsNaN(b) \/ IsNaN(c) THEN NaN
    ELSE IF IsZero(c)
    THEN (IF IsZero(b) THEN NaN ELSE IF Sign(b) > 0 THEN PosInf ELSE NegInf)
    ELSE Quotient(b, c)

\* (r - 1) * 100
MinusOneTimes100(r) ==
    CASE r.k = "num" -> FMul(FSub(r, Whole(1)), Whole(100))
      [] r.k = "sqrt" -> [k |-> "dsqrt", n |-> r.n, d |-> r.d]
      [] OTHER -> r

\* Variant: the quotient taken the other way round.
PctDiffCompositeOverBlock(f, cstats, bstats) ==
    MinusOneTimes100(Divide(f, cstats[f], bstats[f]))
\* (block_stats[f] / composite_stats[f] - 1) * 100
PctDiff(f, cstats, bstats) ==
    MinusOneTimes100(Divide(f, bstats[f], cstats[f]))

\* Lines 470-481: the field each difference is computed from.
DiffField == [vol_diff |-> "volume", ton_diff |-> "tonnage",
              den_diff |-> "densite", teneur_diff |-> "teneur_moyenne",
              min_diff |-> "teneur_min", max_diff |-> "teneur_max",
              std_diff |-> "ecart_type", metal_diff |-> "metal_contenu",
              recup_diff |-> "recuperation",
              metal_rec_diff |-> "metal_recuperable"]

\* The differences, or the exception one of them raised.
OrFault(d) ==
    IF \E v \in DOMAIN d : IsFault(d[v]) THEN Fault("ZeroDivisionError")
    ELSE d
Diffs(cstats, bstats) ==
    OrFault([v \in DOMAIN DiffField |-> PctDiff(DiffField[v], cstats, bstats)])

\* Variant: the tests ordered so that NaN falls in "positive".
get_diff_class_nan_positive(diff) ==
    IF LtZero(diff) THEN "negative"
    ELSE IF IsZero(diff) THEN "neutral"
    ELSE "positive"
\* get_diff_class
get_diff_class(diff) ==
    IF GtZero(diff) THEN "positive"
    ELSE IF LtZero(diff) THEN "negative"
    ELSE "neutral"

\* format(value, spec) for a float presentation: the text is "nan" or "inf"
\* for those values and the rounded digits of the number otherwise; the
\* digits are kept as the number they are rounded from.  A value that is not
\* a number (None) raises TypeError.
Format(spec, v) ==
    IF v.k \in {"none", "str", "fault", "df"} THEN Fault("TypeError")
    ELSE [k |-> "text", spec |-> spec,
          sign |-> IF Sign(v) < 0 THEN "-"
                   ELSE IF spec = "+.1f" THEN "+" ELSE "",
          body |-> CASE v.k = "nan" -> "nan"
                     [] v.k = "inf" -> "inf"
                     [] OTHER -> "digits",
          of |-> v]

\* The diff variable and the format of each metric, in display order
\* (lines 449-462 and 492-524).
DisplayRows ==
    <<[field |-> "volume", diff |-> "vol_diff", spec |-> ",.0f"],
      [field |-> "tonnage", diff |-> "ton_diff", spec |-> ",.0f"],
      [field |-> "densite", diff |-> "den_diff", spec |-> ".2f"],
      [field |-> "teneur_moyenne", diff |-> "teneur_diff", spec |-> ".2f"],
      [field |-> "teneur_min", diff |-> "min_diff", spec |-> ".2f"],
      [field |-> "teneur_max", diff |-> "max_diff", spec |-> ".2f"],
      [field |-> "ecart_type", diff |-> "std_diff", spec |-> ".2f"],
      [field |-> "metal_contenu", diff |-> "metal_diff", spec |-> ",.0f"],
      [field |-> "recuperation", diff |-> "recup_diff", spec |-> ".1f"],
      [field |-> "metal_recuperable", diff |-> "metal_rec_diff",
       spec |-> ",.0f"]>>

\* Lines 492-524: one row per metric of the block card.
Display(bstats, diffs) ==
    [i \in 1..Len(DisplayRows) |->
        LET r == DisplayRows[i]
        IN  [field |-> r.field,
             value |-> Format(r.spec, bstats[r.field]),
             class |-> get_diff_class(diffs[r.diff]),
             diff |-> Format("+.1f", diffs[r.diff])]]

\* Variant: the differences of the minimum and the maximum exchanged.
ReportRowsMinMaxExchanged ==
    <<[metric |-> "Volume total (m3)", field |-> "volume",
       diff |-> "vol_diff", spec |-> ".1f"],
      [metric |-> "Tonnage estime (tonnes)", field |-> "tonnage",
       diff |-> "ton_diff", spec |-> ".1f"],
      [metric |-> "Densite moyenne (t/m3)", field |-> "densite",
       diff |-> "den_diff", spec |-> ".2f"],
      [metric |-> "Teneur moyenne (g/t)", field |-> "teneur_moyenne",
       diff |-> "teneur_diff", spec |-> ".2f"],
      [metric |-> "Teneur minimum (g/t)", field |-> "teneur_min",
       diff |-> "max_diff", spec |-> ".2f"],
      [metric |-> "Teneur maximum (g/t)", field |-> "teneur_max",
       diff |-> "min_diff", spec |-> ".2f"],
      [metric |-> "Ecart-type (g/t)", field |-> "ecart_type",
       diff |-> "std_diff", spec |-> ".2f"],
      [metric |-> "Metal contenu (kg)", field |-> "metal_contenu",
       diff |-> "metal_diff", spec |-> ".1f"],
      [metric |-> "Recuperation estimee (%)", field |-> "recuperation",
       diff |-> "recup_diff", spec |-> ".1f"],
      [metric |-> "Metal recuperable (kg)", field |-> "metal_recuperable",
       diff |-> "metal_rec_diff", spec |-> ".1f"]>>

\* The metric, the diff variable and the value format of each report line
\* (lines 552-565).
ReportRows ==
    <<[metric |-> "Volume total (m3)", field |-> "volume",
       diff |-> "vol_diff", spec |-> ".1f"],
      [metric |-> "Tonnage estime (tonnes)", field |-> "tonnage",
       diff |-> "ton_diff", spec |-> ".1f"],
      [metric |-> "Densite moyenne (t/m3)", field |-> "densite",
       diff |-> "den_diff", spec |-> ".2f"],
      [metric |-> "Teneur moyenne (g/t)", field |-> "teneur_moyenne",
       diff |-> "teneur_diff", spec |-> ".2f"],
      [metric |-> "Teneur minimum (g/t)", field |-> "teneur_min",
       diff |-> "min_diff", spec |-> ".2f"],
      [metric |-> "Teneur maximum (g/t)", field |-> "teneur_max",
       diff |-> "max_diff", spec |-> ".2f"],
      [metric |-> "Ecart-type (g/t)", field |-> "ecart_type",
       diff |-> "std_diff", spec |-> ".2f"],
      [metric |-> "Metal contenu (kg)", field |-> "metal_contenu",
       diff |-> "metal_diff", spec |-> ".1f"],
      [metric |-> "Recuperation estimee (%)", field |-> "recuperation",
       diff |-> "recup_diff", spec |-> ".1f"],
      [metric |-> "Metal recuperable (kg)", field |-> "metal_recuperable",
       diff |-> "metal_rec_diff", spec |-> ".1f"]>>

ReportHeader == <<"Metrique", "Composite 3D", "Bloc Modele", "Difference (%)">>

\* Lines 546-565: the header and the lines written to csv_buffer.
Report(cstats, bstats, diffs) ==
    [header |-> ReportHeader,
     rows |-> [i \in 1..Len(ReportRows) |->
        LET r == ReportRows[i]
        IN  [metric |-> r.metric,
             composite |-> Format(r.spec, cstats[r.field]),
             block |-> Format(r.spec, bstats[r.field]),
             diff |-> Format(".1f", diffs[r.diff])]]]

\* Lines 449-462: the composite card.
CompositeCard(cstats) ==
    [i \in 1..Len(DisplayRows) |->
        [field |-> DisplayRows[i].field,
         value |-> Format(DisplayRows[i].spec, cstats[DisplayRows[i].field])]]

(***************************************************************************)
(* Uploaded files and pd.read_csv (lines 257 and 273).  A file is its      *)
(* header and, per column, the text of its fields; the empty file has no   *)
(* header and cannot be parsed.                                            *)
(***************************************************************************)
File(header, fields) == [k |-> "file", header |-> header, fields |-> fields]

\* The cells of one parsed column: numbers when every field reads as a
\* number or is empty, strings otherwise; an empty field is missing.
ParseColumn(fields) ==
    IF \A i \in 1..Len(fields) : fields[i] = <<>> \/ IsNumeric(fields[i])
    THEN [i \in 1..Len(fields) |->
            IF fields[i] = <<>> THEN NaN ELSE NumericValue(fields[i])]
    ELSE [i \in 1..Len(fields) |->
            IF fields[i] = <<>> THEN NaN ELSE Str(fields[i])]

\* pd.read_csv(file): a DataFrame, or EmptyDataError.
ReadCsv(file) ==
    IF Len(file.header) = 0 THEN Fault("EmptyDataError")
    ELSE DataFrame(file.header,
                   [i \in 1..Len(file.header) |-> ParseColumn(file.fields[i])])

(***************************************************************************)
(* The session.  A run of the script reads and writes st.session_state;    *)
(* the steps of a run are operators on the record of its seven entries,    *)
(* and an action is one whole run.                                         *)
(***************************************************************************)
State == [composite_data |-> composite_data, block_data |-> block_data,
          composite_columns |-> composite_columns,
          block_columns |-> block_columns,
          composite_stats |-> composite_stats, block_stats |-> block_stats,
          mapping |-> mapping]

\* Variant: a file that cannot be read clears the dataset.
LoadCompositeClearOnFault(S, file, read) ==
    IF file = None THEN S
    ELSE IF IsFault(read)
    THEN [S EXCEPT !.composite_data = None, !.composite_columns = None]
    ELSE [S EXCEPT !.composite_data = read,
                   !.composite_columns = read.columns]
\* Lines 255-264: the composite uploader's file, when it holds one; read
\* is the outcome of pd.read_csv on it.
LoadComposite(S, file, read) ==
    IF file = None \/ IsFault(read) THEN S
    ELSE [S EXCEPT !.composite_data = read,
                   !.composite_columns = read.columns]

\* Lines 271-280: the block uploader's file, when it holds one.
LoadBlock(S, file, read) ==
    IF file = None \/ IsFault(read) THEN S
    ELSE [S EXCEPT !.block_data = read, !.block_columns = read.columns]

\* What pd.read_csv gives for the file of each uploader.
ReadBoth(cfile, bfile) ==
    [w \in {"composite", "block"} |->
        IF (IF w = "composite" THEN cfile ELSE bfile) = None THEN None
        ELSE ReadCsv(IF w = "composite" THEN cfile ELSE bfile)]

\* Lines 250-280, the two uploaders of the import page: the session state
\* they leave and the errors they report (lines 264 and 280).
UploadsRead(S, cfile, bfile, read) ==
    [state |-> LoadBlock(LoadComposite(S, cfile, read.composite),
                         bfile, read.block),
     errors |-> [composite |-> IsFault(read.composite),
                 block |-> IsFault(read.block)]]
Uploads(S, cfile, bfile) == UploadsRead(S, cfile, bfile, ReadBoth(cfile, bfile))

\* Line 283: the mapping form is shown.
FormShown(S) == S.composite_data # None /\ S.block_data # None

\* Lines 337-338 and 406-407: the two calls of calculate_statistics, given
\* the grade column of each dataset.
BothStatistics(S, grade) ==
    [w \in {"composite", "block"} |->
        CalculateStatistics(IF w = "composite" THEN S.composite_data
                            ELSE S.block_data, grade[w])]
\* The two datasets once the calls have coerced their grade columns.
BothCoerced(S, grade) ==
    [w \in {"composite", "block"} |->
        CoerceColumn(IF w = "composite" THEN S.composite_data
                     ELSE S.block_data, grade[w])]

\* Variant: the mapping stored without the statistics.
StoredMappingOnly(S, sel, stats, data) ==
    [S EXCEPT !.mapping = sel,
              !.composite_data = data.composite,
              !.block_data = data.block]
\* The session state with the mapping, the statistics and the coerced
\* datasets stored.
Stored(S, sel, stats, data) ==
    [S EXCEPT !.mapping = sel,
              !.composite_stats = stats.composite,
              !.block_stats = stats.block,
              !.composite_data = data.composite,
              !.block_data = data.block]

GradeOf(sel) == [composite |-> sel.composite.grade, block |-> sel.block.grade]

\* Lines 320-338: "Appliquer et analyser" with the values of the eight
\* select boxes.
Apply(S, sel) ==
    Stored(S, sel, BothStatistics(S, GradeOf(sel)), BothCoerced(S, GradeOf(sel)))

\* Lines 350-381: the generated example data.  The 1000 and 5000 random
\* rows are represented by a few rows of values of the same kind:
\* coordinates in range and positive grades.
ExampleComposite ==
    DataFrame(<<<<"E","A","S","T">>, <<"N","O","R","T","H">>,
                <<"E","L","E","V">>, <<"A","U","_","G","P","T">>>>,
              <<<<Whole(1), Whole(8)>>, <<Whole(4), Whole(6)>>,
                <<Whole(-2), Whole(-1)>>, <<Whole(2), Whole(4)>>>>)
ExampleBlock ==
    DataFrame(<<<<"X">>, <<"Y">>, <<"Z">>, <<"G","R","A","D","E">>>>,
              <<<<Whole(1), Whole(5), Whole(9)>>,
                <<Whole(3), Whole(4), Whole(7)>>,
                <<Whole(-2), Whole(-1), Whole(0)>>,
                <<Whole(1), Whole(2), Whole(3)>>>>)

\* Lines 390-403.
ExampleMapping ==
    [composite |-> [x |-> <<"E","A","S","T">>, y |-> <<"N","O","R","T","H">>,
                    z |-> <<"E","L","E","V">>,
                    grade |-> <<"A","U","_","G","P","T">>],
     block |-> [x |-> <<"X">>, y |-> <<"Y">>, z |-> <<"Z">>,
                grade |-> <<"G","R","A","D","E">>]]

\* Lines 384-387: the example datasets and their columns are stored.
WithExampleData(S) ==
    [S EXCEPT !.composite_data = ExampleComposite,
              !.block_data = ExampleBlock,
              !.composite_columns = ExampleComposite.columns,
              !.block_columns = ExampleBlock.columns]

\* Lines 390-407: the example mapping and the statistics of the datasets
\* just stored.
StoreExampleMapping(S) ==
    Stored(S, ExampleMapping, BothStatistics(S, GradeOf(ExampleMapping)),
           BothCoerced(S, GradeOf(ExampleMapping)))

\* Lines 348-407: "Charger des donnees d'exemple".
LoadExample(S) == StoreExampleMapping(WithExampleData(S))

(***************************************************************************)
(* create_comparison_chart (lines 123-181) and create_3d_scatter           *)
(* (lines 183-220).                                                        *)
(***************************************************************************)
\* df[name] as an expression: the column, or the exception it raises.
Subscript(df, name) ==
    IF df = None THEN Fault("TypeError")
    ELSE IF ~HasColumn(df, name) THEN Fault("KeyError")
    ELSE [k |-> "series", cells |-> Column(df, name)]

\* Lines 125-146: None without both records, else the two grade series of
\* the box plots, or the exception raised while reading them.
create_comparison_chart(S, cstats, bstats) ==
    IF cstats = None \/ bstats = None THEN None
    ELSE IF S.mapping = None THEN Fault("TypeError")
    ELSE LET c == Subscript(S.composite_data, S.mapping.composite.grade)
             b == Subscript(S.block_data, S.mapping.block.grade)
         IN  IF IsFault(c) THEN c
             ELSE IF IsFault(b) THEN b
             ELSE [k |-> "figure", composite |-> c, block |-> b]

\* Lines 189-192: the four columns are coerced in turn; a name that is not
\* a column raises KeyError and leaves the columns coerced before it.
RECURSIVE CoerceInTurn(_, _)
CoerceInTurn(df, names) ==
    IF Len(names) = 0 THEN [df |-> df, fault |-> None]
    ELSE IF ~HasColumn(df, names[1])
    THEN [df |-> df, fault |-> Fault("KeyError")]
    ELSE CoerceInTurn(CoerceColumn(df, names[1]), Tail(names))

\* create_3d_scatter(df, x_col, y_col, z_col, grade_col): the DataFrame
\* as the call leaves it, and the exception if one is raised.
create_3d_scatter(df, m) ==
    IF df = None THEN [df |-> df, fault |-> None]
    ELSE CoerceInTurn(df, <<m.x, m.y, m.z, m.grade>>)

\* Line 626: the largest block dataset drawn without sampling.
BlockSampleSize == 3000
\* Line 195: the largest dataset create_3d_scatter draws without sampling.
ScatterSampleSize == 5000

\* The rows of df at the positions idx, in that order.
TakeRows(df, idx) ==
    [df EXCEPT !.data = [c \in DOMAIN df.data |->
                            [i \in 1..Len(idx) |-> df.data[c][idx[i]]]]]

\* Variant: rows drawn with replacement.
DfSampleWithReplacement(len, n) == [1..n -> 1..len]
\* df.sample(n): the positions of n rows drawn without replacement, in
\* any order.
DfSample(len, n) ==
    {idx \in [1..n -> 1..len] :
        \A i, j \in 1..n : i # j => idx[i] # idx[j]}

\* min(limit, len(df))
SampleSize(limit, len) == IF limit < len THEN limit ELSE len

\* Lines 195-196 and 626-627: df.sample(sample_size) if len(df) >
\* sample_size else df.  Every DataFrame the expression can give, with
\* the positions its rows have in df.
SampleOrWhole(df, limit) ==
    IF NRows(df) > SampleSize(limit, NRows(df))
    THEN {[index |-> idx, df |-> TakeRows(df, idx)] :
            idx \in DfSample(NRows(df), SampleSize(limit, NRows(df)))}
    ELSE {[index |-> [i \in 1..NRows(df) |-> i], df |-> df]}

(***************************************************************************)
(* The pages.  Each operator gives the session state a run of the page     *)
(* leaves and what the run rendered.                                       *)
(***************************************************************************)
\* The values the select boxes can hold: the guessed columns (lines
\* 294-316) with at most n boxes moved to another column.
OneEdit(sel, S) ==
    {[sel EXCEPT !.composite[r] = c] :
        r \in Roles, c \in {S.composite_columns[i] :
                              i \in 1..Len(S.composite_columns)}}
    \cup
    {[sel EXCEPT !.block[r] = c] :
        r \in Roles, c \in {S.block_columns[i] :
                              i \in 1..Len(S.block_columns)}}

\* Lines 294-297 and 308-311: the columns the select boxes start on.
Guess(S) == [composite |-> CompositeGuess(S.composite_columns),
             block |-> BlockGuess(S.block_columns)]

RECURSIVE Selections(_, _)
Selections(S, n) ==
    IF n = 0 THEN {Guess(S)}
    ELSE UNION {OneEdit(sel, S) : sel \in Selections(S, n - 1)}

\* Lines 283-316, the mapping form of the import page as drawn from the
\* state S the uploaders left; errors are theirs.
ImportView(S, errors, click) ==
    [page |-> "import",
     errors |-> errors,
     form |-> FormShown(S),
     guess |-> IF FormShown(S) THEN Guess(S) ELSE None,
     applied |-> click = "apply" /\ FormShown(S),
     example |-> click = "example"]

\* A run of the import page (lines 245-418) in which no button is pressed:
\* up is what the uploaders left.
ImportPage(up) ==
    [state |-> up.state, view |-> ImportView(up.state, up.errors, "none")]

\* A run of the import page in which "Appliquer et analyser" is pressed
\* with sel in the select boxes (lines 318-340).
ImportPageApply(up, sel) ==
    [state |-> IF FormShown(up.state) THEN Apply(up.state, sel) ELSE up.state,
     view |-> ImportView(up.state, up.errors, "apply")]

\* A run of the import page in which "Charger des donnees d'exemple" is
\* pressed (lines 348-418).
ImportPageExample(up) ==
    [state |-> LoadExample(up.state),
     view |-> ImportView(up.state, up.errors, "example")]

ComparisonBlank ==
    [page |-> "comparison", warning |-> FALSE, fault |-> None,
     diffs |-> None, display |-> None, report |-> None]

\* Lines 441-576: the cards and, when click is TRUE, the report.
ComparisonCards(cs, bs, diffs, click) ==
    IF IsFault(diffs) THEN [ComparisonBlank EXCEPT !.fault = diffs]
    ELSE [ComparisonBlank EXCEPT
            !.diffs = diffs,
            !.display = [composite |-> CompositeCard(cs),
                         block |-> Display(bs, diffs)],
            !.report = IF click THEN Report(cs, bs, diffs) ELSE None]

\* Lines 427-576: the page once both records are there; fig is what
\* create_comparison_chart gave (line 438).
ComparisonBody(S, fig, click) ==
    IF IsFault(fig) THEN [ComparisonBlank EXCEPT !.fault = fig]
    ELSE ComparisonCards(S.composite_stats, S.block_stats,
                         Diffs(S.composite_stats, S.block_stats), click)

\* Variant: the guard of line 424 left out.
ComparisonPageNoGuard(S, click) ==
    IF S.composite_stats = None \/ S.block_stats = None
    THEN [ComparisonBlank EXCEPT !.diffs = [v \in DOMAIN DiffField |-> NaN]]
    ELSE ComparisonBody(
            S, create_comparison_chart(S, S.composite_stats, S.block_stats),
            click)
\* Lines 421-576, the comparison page; click is TRUE when "Generer un
\* rapport de comparaison" was pressed.
ComparisonPage(S, click) ==
    IF S.composite_stats = None \/ S.block_stats = None
    THEN [ComparisonBlank EXCEPT !.warning = TRUE]
    ELSE ComparisonBody(
            S, create_comparison_chart(S, S.composite_stats, S.block_stats),
            click)

\* Lines 606-639: the two figures.  c is what create_3d_scatter left of the
\* composite dataset; the block figure is drawn when it raised nothing.
\* Lines 626-627: a sample of the block dataset is a copy, the whole
\* dataset is not.
Figures(S, model_selector, c, b) ==
    [state |-> [S EXCEPT
                  !.composite_data = c.df,
                  !.block_data =
                      IF c.fault # None \/ NRows(@) > BlockSampleSize
                      THEN @ ELSE b.df],
     view |-> [page |-> "3d", warning |-> FALSE,
               fault |-> IF c.fault # None THEN c.fault ELSE b.fault]]

\* The call of create_3d_scatter for one dataset when its figure is asked.
Scatter(asked, df, m) ==
    IF asked THEN create_3d_scatter(df, m) ELSE [df |-> df, fault |-> None]

\* Lines 579-672, the 3D page with the chosen "Modele a afficher".
View3DPage(S, model_selector) ==
    IF S.composite_data = None \/ S.block_data = None \/ S.mapping = None
    THEN [state |-> S,
          view |-> [page |-> "3d", warning |-> TRUE, fault |-> None]]
    ELSE Figures(
            S, model_selector,
            Scatter(model_selector \in {"Composites 3D", "Les deux superposes"},
                    S.composite_data, S.mapping.composite),
            Scatter(model_selector \in {"Modele de bloc", "Les deux superposes"},
                    S.block_data, S.mapping.block))

(***************************************************************************)
(* The files a user uploads.                                               *)
(***************************************************************************)
FileWithComposite ==
    File(<<<<"x">>, <<"g","r","a","d","e","_","c","o","m","p","o","s","i","t","e">>>>,
         <<<<<<"0">>, <<"1","0">>>>, <<<<"1">>, <<"3">>>>>>)
FileWithText ==
    File(<<<<"i","d">>, <<"C","U">>>>,
         <<<<<<"a">>, <<"b">>>>, <<<<"2">>, <<"n","d">>>>>>)
EmptyFile == File(<<>>, <<>>)
FilePool == {FileWithComposite, FileWithText, EmptyFile}

(***************************************************************************)
(* Actions of the session: one user interaction and the run it triggers.   *)
(***************************************************************************)
Ran(r) ==
    /\ composite_data' = r.state.composite_data
    /\ block_data' = r.state.block_data
    /\ composite_columns' = r.state.composite_columns
    /\ block_columns' = r.state.block_columns
    /\ composite_stats' = r.state.composite_stats
    /\ block_stats' = r.state.block_stats
    /\ mapping' = r.state.mapping
    /\ view' = r.view

\* A file is put in the composite uploader (line 253).
UploadComposite(f) ==
    /\ view.page = "import"
    /\ composite_file' = f
    /\ block_file' = block_file
    /\ Ran(ImportPage(Uploads(State, f, block_file)))
    /\ UNCHANGED <<fn_in, fn_out>>

\* A file is put in the block uploader (line 269).
UploadBlock(f) ==
    /\ view.page = "import"
    /\ composite_file' = composite_file
    /\ block_file' = f
    /\ Ran(ImportPage(Uploads(State, composite_file, f)))
    /\ UNCHANGED <<fn_in, fn_out>>

\* The file of an uploader is removed.
RemoveComposite ==
    /\ view.page = "import"
    /\ composite_file # None
    /\ composite_file' = None
    /\ block_file' = block_file
    /\ Ran(ImportPage(Uploads(State, None, block_file)))
    /\ UNCHANGED <<fn_in, fn_out>>

RemoveBlock ==
    /\ view.page = "import"
    /\ block_file # None
    /\ block_file' = None
    /\ composite_file' = composite_file
    /\ Ran(ImportPage(Uploads(State, composite_file, None)))
    /\ UNCHANGED <<fn_in, fn_out>>

\* "Appliquer et analyser" is pressed (line 318); the button is there when
\* the last run showed the mapping form.
ClickApply ==
    /\ view.page = "import"
    /\ view.form
    /\ \E up \in {Uploads(State, composite_file, block_file)} :
          \E sel \in Selections(up.state, MaxEdits) :
              Ran(ImportPageApply(up, sel))
    /\ UNCHANGED <<composite_file, block_file, fn_in, fn_out>>

\* "Charger des donnees d'exemple" is pressed (line 348).
ClickExample ==
    /\ view.page = "import"
    /\ Ran(ImportPageExample(Uploads(State, composite_file, block_file)))
    /\ UNCHANGED <<composite_file, block_file, fn_in, fn_out>>

\* The sidebar radio (line 227) is moved back to the import page.  The
\* uploaders were not drawn by the other pages and hold no file.
OpenImport ==
    /\ view.page # "import"
    /\ Ran([state |-> State,
            view |-> ImportView(State, [composite |-> FALSE, block |-> FALSE],
                                "none")])
    /\ UNCHANGED <<composite_file, block_file, fn_in, fn_out>>

\* The comparison page is opened, or drawn again.
OpenComparison ==
    /\ composite_file' = None
    /\ block_file' = None
    /\ Ran([state |-> State, view |-> ComparisonPage(State, FALSE)])
    /\ UNCHANGED <<fn_in, fn_out>>

\* "Generer un rapport de comparaison" is pressed (line 544); the button
\* is there when the last run drew the comparison page to its end.
ClickReport ==
    /\ view.page = "comparison"
    /\ view.display # None
    /\ Ran([state |-> State, view |-> ComparisonPage(State, TRUE)])
    /\ UNCHANGED <<composite_file, block_file, fn_in, fn_out>>

\* The 3D page is opened, or drawn again with another model selected.
Open3D(model_selector) ==
    /\ composite_file' = None
    /\ block_file' = None
    /\ Ran(View3DPage(State, model_selector))
    /\ UNCHANGED <<fn_in, fn_out>>

ModelSelectors == {"Composites 3D", "Modele de bloc", "Les deux superposes"}

\* The state after the first run of the script (lines 82-95): nothing
\* loaded, the import page drawn.
Init ==
    /\ composite_data = None
    /\ block_data = None
    /\ composite_columns = None
    /\ block_columns = None
    /\ composite_stats = None
    /\ block_stats = None
    /\ mapping = None
    /\ composite_file = None
    /\ block_file = None
    /\ view = [page |-> "import",
               errors |-> [composite |-> FALSE, block |-> FALSE],
               form |-> FALSE, guess |-> None, applied |-> FALSE,
               example |-> FALSE]
    /\ fn_in = None
    /\ fn_out = None

Next ==
    \/ \E f \in FilePool : UploadComposite(f)
    \/ \E f \in FilePool : UploadBlock(f)
    \/ RemoveComposite
    \/ RemoveBlock
    \/ ClickApply
    \/ ClickExample
    \/ OpenImport
    \/ OpenComparison
    \/ ClickReport
    \/ \E m \in ModelSelectors : Open3D(m)

Spec == Init /\ [][Next]_vars

(***************************************************************************)
(* The pure computations, each applied once to an input drawn from a       *)
(* bounded set: the column guess of the mapping form, calculate_statistics *)
(* and the comparison of two records it returned.                          *)
(***************************************************************************)
\* fn_out before the computation has been applied.
Pending == [k |-> "pending"]

\* All sequences over S of length lo to hi.
SeqsOf(S, lo, hi) == UNION {[1..n -> S] : n \in lo..hi}

\* Column names of the kind the guess meets: upper and lower case, a name
\* with no keyword, names with the keywords of several roles.
ColumnNames ==
    {<<"E","A","S","T">>, <<"Y">>, <<"e","l","e","v">>,
     <<"A","U","_","G","P","T">>, <<"f","o","o">>, <<"X","c","u">>,
     <<"n","o","r","t","h","_","z">>}
\* df.columns.tolist() of a parsed file: not empty, no name twice.
ColumnLists ==
    {cols \in SeqsOf(ColumnNames, 1, MaxCols) :
        \A i, j \in 1..Len(cols) : i # j => cols[i] # cols[j]}
GuessInputs ==
    {[k |-> "guess", which |-> w, columns |-> cols] :
        w \in {"composite", "block"}, cols \in ColumnLists}

\* Names of a grade column.
GradeNames ==
    {<<"A","U","_","G","P","T">>,
     <<"g","r","a","d","e","_","c","o","m","p","o","s","i","t","e">>,
     <<"C","O","M","P","O","S","I","T","E","_","A","U">>}
\* Cells of a grade column: numbers, a missing value, text that reads as a
\* number and text that does not.
GradeCells ==
    {Whole(1), Whole(2), Whole(3), NaN, Str(<<"n","d">>),
     Str(<<"-","1",".","5">>)}
\* A dataset with an identifier column and one grade column.
Dataset(name, cells) ==
    DataFrame(<<<<"i","d">>, name>>,
              <<[i \in 1..Len(cells) |-> Str(<<"r">>)], cells>>)
StatisticsInputs ==
    {[k |-> "stats", df |-> Dataset(name, cells), grade_column |-> g] :
        name \in GradeNames, cells \in SeqsOf(GradeCells, 0, MaxRows),
        g \in GradeNames}
    \cup {[k |-> "stats", df |-> None, grade_column |-> g] : g \in GradeNames}

\* The grade columns of two datasets whose records are compared.
DeltaNames ==
    {<<"A","U","_","G","P","T">>,
     <<"g","r","a","d","e","_","c","o","m","p","o","s","i","t","e">>}
DeltaCells == {Whole(-1), Whole(0), Whole(1), Whole(3)}
DeltaSide ==
    {[name |-> name, cells |-> cells] :
        name \in DeltaNames, cells \in SeqsOf(DeltaCells, 0, MaxDeltaRows)}
DeltaInputs ==
    {[k |-> "delta", composite |-> c, block |-> b] :
        c \in DeltaSide, b \in DeltaSide}

\* Datasets given to the sampling of the 3D view, and the largest size
\* drawn whole: the 3000 and 5000 of the source, and sizes scaled down to
\* the datasets of the model.
SampleLimits == (1..MaxSample) \cup {BlockSampleSize, ScatterSampleSize}
SampleInputs ==
    {[k |-> "sample",
      df |-> Dataset(<<"A","U","_","G","P","T">>, cells),
      limit |-> l] :
        cells \in SeqsOf({Whole(1), Whole(2)}, 0, MaxRows), l \in SampleLimits}

FnInputs ==
    GuessInputs \cup StatisticsInputs \cup DeltaInputs \cup SampleInputs

\* Lines 294-297 or 308-311 on one column list.
ApplyGuess ==
    /\ fn_in.k = "guess"
    /\ fn_out = Pending
    /\ fn_out' = IF fn_in.which = "composite"
                 THEN CompositeGuess(fn_in.columns)
                 ELSE BlockGuess(fn_in.columns)
    /\ UNCHANGED <<session, widgets, view, fn_in>>

\* One call of calculate_statistics: what it returns and the DataFrame as
\* the call leaves it.
ApplyStatistics ==
    /\ fn_in.k = "stats"
    /\ fn_out = Pending
    /\ fn_out' = [k |-> "returned",
                  result |-> CalculateStatistics(fn_in.df, fn_in.grade_column),
                  df |-> CoerceColumn(fn_in.df, fn_in.grade_column)]
    /\ UNCHANGED <<session, widgets, view, fn_in>>

\* The records of two datasets and lines 441-576 on them, the report asked.
Compared(stats) ==
    [k |-> "compared", composite |-> stats.composite, block |-> stats.block,
     page |-> ComparisonCards(stats.composite, stats.block,
                              Diffs(stats.composite, stats.block), TRUE)]
ApplyDelta ==
    /\ fn_in.k = "delta"
    /\ fn_out = Pending
    /\ fn_out' = Compared(BothStatistics(
                    [composite_data |-> Dataset(fn_in.composite.name,
                                                fn_in.composite.cells),
                     block_data |-> Dataset(fn_in.block.name,
                                            fn_in.block.cells)],
                    [composite |-> fn_in.composite.name,
                     block |-> fn_in.block.name]))
    /\ UNCHANGED <<session, widgets, view, fn_in>>

\* Lines 195-196 or 626-627 on one dataset.
ApplySample ==
    /\ fn_in.k = "sample"
    /\ fn_out = Pending
    /\ \E r \in SampleOrWhole(fn_in.df, fn_in.limit) :
          fn_out' = [k |-> "sampled", index |-> r.index, df |-> r.df]
    /\ UNCHANGED <<session, widgets, view, fn_in>>

InitFn ==
    /\ composite_data = None
    /\ block_data = None
    /\ composite_columns = None
    /\ block_columns = None
    /\ composite_stats = None
    /\ block_stats = None
    /\ mapping = None
    /\ composite_file = None
    /\ block_file = None
    /\ view = None
    /\ fn_in \in FnInputs
    /\ fn_out = Pending

NextFn == ApplyGuess \/ ApplyStatistics \/ ApplyDelta \/ ApplySample

SpecFn == InitFn /\ [][NextFn]_vars

(***************************************************************************)
(* Properties of the column guess.                                         *)
(***************************************************************************)
C1_Keywords ==
    [x |-> {<<"x">>, <<"e","a","s","t">>},
     y |-> {<<"y">>, <<"n","o","r","t","h">>},
     z |-> {<<"z">>, <<"e","l","e","v">>},
     grade |-> {<<"g","r","a","d","e">>, <<"t","e","n","e","u","r">>,
                <<"a","u">>, <<"c","u">>}]
\* The positions of the columns whose lowercased name holds a keyword of r.
C1_Hits(cols, r) ==
    {i \in 1..Len(cols) :
        \E kw \in C1_Keywords[r] : Contains(Lower(cols[i]), kw)}

\* C1: for every non-empty column list and every role, the guessed column
\* is the first column in list order whose lowercased name contains one of
\* the role's keywords, and the column at index 0 when none does; the
\* composite and the block guess follow the same rule.
C1_FirstMatchOrFirstColumn ==
    (fn_in.k = "guess" /\ fn_out # Pending) =>
        \A r \in Roles :
            IF C1_Hits(fn_in.columns, r) = {}
            THEN fn_out[r] = fn_in.columns[1]
            ELSE \E i \in C1_Hits(fn_in.columns, r) :
                    /\ \A j \in C1_Hits(fn_in.columns, r) : i <= j
                    /\ fn_out[r] = fn_in.columns[i]

\* A guess on ["foo", "EAST"]: x is found in the second column through its
\* lowercased name, y matches nothing and falls back to the first column.
C1_Witness ==
    /\ fn_in.k = "guess"
    /\ fn_out # Pending
    /\ fn_in.columns = <<<<"f","o","o">>, <<"E","A","S","T">>>>
    /\ fn_out.x = <<"E","A","S","T">>
    /\ fn_out.y = <<"f","o","o">>

(***************************************************************************)
(* Properties of the session.                                              *)
(***************************************************************************)
\* C2: in every reachable session state, a mapping that is set names, for
\* each role of each dataset, a column of the dataset currently stored.
C2_MappingNamesColumns ==
    mapping # None =>
        /\ composite_data # None
        /\ block_data # None
        /\ \A r \in Roles :
              /\ HasColumn(composite_data, mapping.composite[r])
              /\ HasColumn(block_data, mapping.block[r])

\* A mapping that names a column the stored composite dataset does not
\* have, met by the 3D page: create_3d_scatter raises KeyError.
C2_Witness ==
    /\ mapping # None
    /\ composite_data # None
    /\ ~HasColumn(composite_data, mapping.composite.grade)
    /\ view.page = "3d"
    /\ view.fault = Fault("KeyError")

\* C4: the percentage differences, the cards (with the report button
\* below them) and the report exist only when both statistics records are
\* present; while a record is missing the comparison page shows the warning
\* and nothing else.
C4_ComparisonNeedsBothRecords ==
    view.page = "comparison" =>
        /\ (view.diffs # None \/ view.display # None \/ view.report # None)
              => (composite_stats # None /\ block_stats # None)
        /\ (composite_stats = None \/ block_stats = None)
              => /\ view.warning
                 /\ view.diffs = None
                 /\ view.display = None
                 /\ view.report = None
                 /\ view.fault = None

\* The comparison page drawn with both records, the report generated.
C4_Witness ==
    /\ view.page = "comparison"
    /\ composite_stats # None
    /\ block_stats # None
    /\ view.diffs # None
    /\ view.report # None
    /\ ~view.warning

(***************************************************************************)
(* Properties of calculate_statistics.                                     *)
(***************************************************************************)
\* A call of calculate_statistics has returned.
Returned == fn_in.k = "stats" /\ fn_out # Pending
\* ... and returned a record.
ReturnedRecord == Returned /\ fn_out.result # None

C3_TenFields ==
    {"volume", "tonnage", "densite", "teneur_moyenne", "teneur_min",
     "teneur_max", "ecart_type", "metal_contenu", "recuperation",
     "metal_recuperable"}
C3_NoSuchColumn ==
    \/ fn_in.df = None
    \/ \A i \in 1..Len(fn_in.df.columns) :
          fn_in.df.columns[i] # fn_in.grade_column

\* C3: calculate_statistics returns None exactly when df is None or
\* grade_column is not a column of df, and otherwise a record with all ten
\* fields; never a record with a field absent.
C3_NoneOrCompleteRecord ==
    Returned =>
        /\ C3_NoSuchColumn <=> fn_out.result = None
        /\ ~C3_NoSuchColumn => DOMAIN fn_out.result = C3_TenFields

\* A call on a dataset that lacks the requested column returned None.
C3_Witness ==
    /\ Returned
    /\ fn_in.df # None
    /\ Len(fn_in.df.data[2]) > 0
    /\ C3_NoSuchColumn
    /\ fn_out.result = None

\* C5: volume, tonnage and recuperation are 1,250,000 / 3,375,000 / 92.5
\* when the name of the grade column contains "composite" and 1,275,000 /
\* 3,442,500 / 91.0 otherwise, whatever the values of the dataset; densite
\* is 2.7 in both cases.
C5_ConstantsByColumnName ==
    ReturnedRecord =>
        /\ fn_out.result.densite = Frac(27, 10)
        /\ IF Contains(fn_in.grade_column,
                       <<"c","o","m","p","o","s","i","t","e">>)
           THEN /\ fn_out.result.volume = Whole(1250000)
                /\ fn_out.result.tonnage = Whole(3375000)
                /\ fn_out.result.recuperation = Frac(925, 10)
           ELSE /\ fn_out.result.volume = Whole(1275000)
                /\ fn_out.result.tonnage = Whole(3442500)
                /\ fn_out.result.recuperation = Whole(91)

\* A record for a grade column named "grade_composite" with values in it.
C5_Witness ==
    /\ ReturnedRecord
    /\ Contains(fn_in.grade_column, <<"c","o","m","p","o","s","i","t","e">>)
    /\ IsNum(fn_out.result.teneur_moyenne)
    /\ fn_out.result.volume = Whole(1250000)
    /\ fn_out.result.recuperation = Frac(925, 10)

\* C6: in every record returned, metal_contenu is the record's tonnage
\* times its teneur_moyenne divided by 1000 (the undefined value when the
\* mean is undefined), in both branches.
C6_MetalContenu ==
    ReturnedRecord =>
        fn_out.result.metal_contenu =
            IF IsNaN(fn_out.result.teneur_moyenne) THEN NaN
            ELSE Frac(fn_out.result.tonnage.n * fn_out.result.teneur_moyenne.n,
                      1000 * fn_out.result.teneur_moyenne.d)

\* A record of the "composite" branch with mean 2: 3,375,000 * 2 / 1000.
C6_Witness ==
    /\ ReturnedRecord
    /\ fn_out.result.tonnage = Whole(3375000)
    /\ fn_out.result.teneur_moyenne = Whole(2)
    /\ fn_out.result.metal_contenu = Whole(6750)

\* The dataset of the worked example: AU_GPT with 1.0, 2.0, 3.0.
C7_Example ==
    /\ fn_in.df = Dataset(<<"A","U","_","G","P","T">>,
                          <<Whole(1), Whole(2), Whole(3)>>)
    /\ fn_in.grade_column = <<"A","U","_","G","P","T">>

\* C7: in every record returned, metal_recuperable is metal_contenu times
\* recuperation divided by 100; AU_GPT with 1.0, 2.0, 3.0 gives mean 2,
\* min 1, max 3, standard deviation 1, metal_contenu 6885 and
\* metal_recuperable 6265.35.
C7_MetalRecuperable ==
    ReturnedRecord =>
        /\ fn_out.result.metal_recuperable =
              IF IsNaN(fn_out.result.metal_contenu) THEN NaN
              ELSE Frac(fn_out.result.metal_contenu.n
                            * fn_out.result.recuperation.n,
                        fn_out.result.metal_contenu.d
                            * fn_out.result.recuperation.d * 100)
        /\ C7_Example =>
              /\ fn_out.result.teneur_moyenne = Whole(2)
              /\ fn_out.result.teneur_min = Whole(1)
              /\ fn_out.result.teneur_max = Whole(3)
              /\ fn_out.result.ecart_type = Whole(1)
              /\ fn_out.result.metal_contenu = Whole(6885)
              /\ fn_out.result.metal_recuperable = Frac(626535, 100)

\* The worked example has been computed.
C7_Witness ==
    /\ ReturnedRecord
    /\ C7_Example
    /\ fn_out.result.metal_recuperable = Frac(626535, 100)

\* The numeric values of the grade column given to the call.
C8_Values == DropNa(ToNumeric(Column(fn_in.df, fn_in.grade_column)))
C8_Ordered ==
    /\ FLe(fn_out.result.teneur_min, fn_out.result.teneur_moyenne)
    /\ FLe(fn_out.result.teneur_moyenne, fn_out.result.teneur_max)
C8_StdDefined ==
    /\ fn_out.result.ecart_type.k \in {"num", "sqrt"}
    /\ Sign(fn_out.result.ecart_type) >= 0
\* The sum of the squared deviations of the values from their mean.
C8_Deviations ==
    SumOf([i \in 1..Len(C8_Values) |->
              FMul(FSub(C8_Values[i], fn_out.result.teneur_moyenne),
                   FSub(C8_Values[i], fn_out.result.teneur_moyenne))])

ComparedRecords == fn_in.k = "delta" /\ fn_out # Pending
Completed ==
    /\ fn_out.page.fault = None
    /\ fn_out.page.diffs # None
    /\ fn_out.page.display # None
    /\ fn_out.page.report # None
\* The difference shown on row i of the block card and written on line i of
\* the report, and the two values it is the difference of.
ShownDiff(i) == fn_out.page.display.block[i].diff.of
ShownClass(i) == fn_out.page.display.block[i].class
WrittenDiff(i) == fn_out.page.report.rows[i].diff.of
CompositeValue(i) == fn_out.composite[fn_out.page.display.block[i].field]
BlockValue(i) == fn_out.block[fn_out.page.display.block[i].field]
IsFinite(a) == a.k \in {"num", "sqrt"}

\* A record compared with itself.
C9_Self == ComparedRecords /\ fn_in.composite = fn_in.block

\* C9 as stated: the delta of a record against itself is 0 and 'neutral'
\* for each of the ten fields, fields that are 0 or undefined included.
C9_AsStated ==
    C9_Self =>
        /\ Completed
        /\ \A i \in 1..10 : ShownDiff(i) = Whole(0) /\ ShownClass(i) = "neutral"

\* C9, amended: the delta of a record against itself is 0 for each field
\* that is a finite number other than 0 and NaN for each field that is 0 or
\* undefined; all ten are classified 'neutral'.
C9_SelfDelta ==
    C9_Self =>
        /\ Completed
        /\ \A i \in 1..10 :
              /\ ShownDiff(i) =
                    IF IsFinite(CompositeValue(i)) /\ ~IsZero(CompositeValue(i))
                    THEN Whole(0) ELSE NaN
              /\ WrittenDiff(i) = ShownDiff(i)
              /\ ShownClass(i) = "neutral"

\* A record with a field that is 0 and a field that is undefined, compared
\* with itself.
C9_Witness ==
    /\ C9_Self
    /\ Completed
    /\ \E i \in 1..10 : IsZero(CompositeValue(i)) /\ IsNaN(ShownDiff(i))
    /\ \E i \in 1..10 : IsNaN(CompositeValue(i)) /\ IsNaN(ShownDiff(i))
    /\ \E i \in 1..10 : ShownDiff(i) = Whole(0)

\* d is (b / c - 1) * 100 for finite b and c, c not zero.
C10_IsDelta(d, b, c) ==
    IF b.k = "num" /\ c.k = "num"
    THEN d = FMul(FSub(Over(b, c), Whole(1)), Whole(100))
    ELSE \/ /\ d.k = "dsqrt"
            /\ Frac(d.n, d.d) = Over(Squared(b), Squared(c))
         \/ /\ d.k = "num"
            /\ FLe(Whole(-100), d)
            /\ Squared(FAdd(Over(d, Whole(100)), Whole(1)))
                  = Over(Squared(b), Squared(c))
C10_Formula(i) ==
    (IsFinite(BlockValue(i)) /\ IsFinite(CompositeValue(i))
        /\ ~IsZero(CompositeValue(i)))
    => C10_IsDelta(ShownDiff(i), BlockValue(i), CompositeValue(i))

\* C10 as stated: every delta is (block / composite - 1) * 100, it is the
\* undefined value when the composite field is zero or missing, and no
\* exception is raised.
C10_AsStated ==
    ComparedRecords =>
        /\ Completed
        /\ \A i \in 1..10 :
              /\ C10_Formula(i)
              /\ (IsZero(CompositeValue(i)) \/ IsNaN(CompositeValue(i)))
                    => IsNaN(ShownDiff(i))

\* C10, amended: every delta is (block / composite - 1) * 100 and no
\* exception is raised by the differences, their classes, the display or
\* the report; the delta is NaN when either field is missing or both are
\* zero, and +infinity or -infinity, with the sign of the block field,
\* when the composite field is zero and the block field is not.
C10_DeltaOrNaNOrInfinity ==
    ComparedRecords =>
        /\ Completed
        /\ \A i \in 1..10 :
              /\ C10_Formula(i)
              /\ (IsNaN(CompositeValue(i)) \/ IsNaN(BlockValue(i)))
                    => IsNaN(ShownDiff(i))
              /\ (IsZero(CompositeValue(i)) /\ IsZero(BlockValue(i)))
                    => IsNaN(ShownDiff(i))
              /\ (IsZero(CompositeValue(i)) /\ GtZero(BlockValue(i)))
                    => (ShownDiff(i) = PosInf /\ ShownClass(i) = "positive")
              /\ (IsZero(CompositeValue(i)) /\ LtZero(BlockValue(i)))
                    => (ShownDiff(i) = NegInf /\ ShownClass(i) = "negative")
              /\ WrittenDiff(i) = ShownDiff(i)

\* A comparison in which a composite field is zero and the block field is
\* not, and one in the same run in which the composite field is positive.
C10_Witness ==
    /\ ComparedRecords
    /\ Completed
    /\ \E i \in 1..10 :
          /\ IsZero(CompositeValue(i))
          /\ LtZero(BlockValue(i))
          /\ ShownDiff(i) = NegInf
          /\ fn_out.page.display.block[i].diff.body = "inf"
    /\ \E i \in 1..10 :
          /\ GtZero(CompositeValue(i))
          /\ GtZero(BlockValue(i))
          /\ GtZero(ShownDiff(i))

\* C11: every delta is tagged 'positive' exactly when it is > 0,
\* 'negative' exactly when it is < 0 and 'neutral' exactly when it equals
\* 0, so that an undefined delta has none of the three tags.
C11_TagsBySign ==
    ComparedRecords =>
        /\ Completed
        /\ \A i \in 1..10 :
              /\ ShownClass(i) = "positive" <=> GtZero(ShownDiff(i))
              /\ ShownClass(i) = "negative" <=> LtZero(ShownDiff(i))
              /\ ShownClass(i) = "neutral" <=> IsZero(ShownDiff(i))

\* An undefined delta on the block card: tagged 'neutral' and written
\* through the signed format of the numeric deltas, as "+nan".
C11_Witness ==
    /\ ComparedRecords
    /\ Completed
    /\ \E i \in 1..10 :
          /\ IsNaN(ShownDiff(i))
          /\ ShownClass(i) = "neutral"
          /\ fn_out.page.display.block[i].diff.spec = "+.1f"
          /\ fn_out.page.display.block[i].diff.sign = "+"
          /\ fn_out.page.display.block[i].diff.body = "nan"
    /\ \E i \in 1..10 : IsZero(ShownDiff(i)) /\ ShownClass(i) = "neutral"

(***************************************************************************)
(* Properties of the sampling of the 3D view.                              *)
(***************************************************************************)
Sampled == fn_in.k = "sample" /\ fn_out # Pending
\* Row i of a DataFrame: its cells, column by column.
RowOf(df, i) == [c \in DOMAIN df.data |-> df.data[c][i]]

\* C12: for every dataset and sample size N, sampling gives the dataset
\* itself when it has at most N rows, and otherwise exactly N rows, each a
\* row of the dataset and no row taken twice.
C12_WholeOrNDistinctRows ==
    Sampled =>
        IF NRows(fn_in.df) <= fn_in.limit
        THEN fn_out.df = fn_in.df
        ELSE /\ NRows(fn_out.df) = fn_in.limit
             /\ Len(fn_out.index) = fn_in.limit
             /\ fn_out.df.columns = fn_in.df.columns
             /\ \A i \in 1..fn_in.limit :
                   /\ fn_out.index[i] \in 1..NRows(fn_in.df)
                   /\ RowOf(fn_out.df, i) = RowOf(fn_in.df, fn_out.index[i])
             /\ \A i, j \in 1..fn_in.limit :
                   i # j => fn_out.index[i] # fn_out.index[j]

\* Two rows sampled from three, not in the order of the dataset.
C12_Witness ==
    /\ Sampled
    /\ NRows(fn_in.df) = 3
    /\ fn_in.limit = 2
    /\ NRows(fn_out.df) = 2
    /\ fn_out.index[1] > fn_out.index[2]

(***************************************************************************)
(* Property of calculate_statistics on the DataFrame it is given.          *)
(***************************************************************************)
\* What line 104 makes of one cell: a number stays, text that reads as a
\* number becomes that number, any other text becomes the missing value.
C13_Coerced(old, new) ==
    /\ old.k # "str" => new = old
    /\ (old.k = "str" /\ IsNumeric(old.s)) => new = NumericValue(old.s)
    /\ (old.k = "str" /\ ~IsNumeric(old.s)) => IsNaN(new)

\* C13: calculate_statistics(df, g) leaves the column names, the row count
\* and every column other than g unchanged, and changes column g only by
\* putting the missing value where a value cannot be read as a number; when
\* it returns None it changes nothing.
C13_OnlyGradeColumnCoerced ==
    Returned =>
        IF fn_out.result = None THEN fn_out.df = fn_in.df
        ELSE /\ fn_out.df.columns = fn_in.df.columns
             /\ DOMAIN fn_out.df.data = DOMAIN fn_in.df.data
             /\ \A c \in DOMAIN fn_in.df.data :
                   /\ Len(fn_out.df.data[c]) = Len(fn_in.df.data[c])
                   /\ fn_in.df.columns[c] # fn_in.grade_column
                         => fn_out.df.data[c] = fn_in.df.data[c]
                   /\ fn_in.df.columns[c] = fn_in.grade_column
                         => \A i \in 1..Len(fn_in.df.data[c]) :
                               C13_Coerced(fn_in.df.data[c][i],
                                           fn_out.df.data[c][i])

\* A call that put the missing value in place of text in the grade column
\* of a dataset with a text column beside it.
C13_Witness ==
    /\ ReturnedRecord
    /\ fn_in.df.data[2] = <<Whole(1), Str(<<"n","d">>)>>
    /\ fn_out.df.data[2] = <<Whole(1), NaN>>
    /\ fn_out.df.data[1] = <<Str(<<"r">>), Str(<<"r">>)>>

(***************************************************************************)
(* Property of the comparison report.                                      *)
(***************************************************************************)
C14_Fields ==
    <<"volume", "tonnage", "densite", "teneur_moyenne", "teneur_min",
      "teneur_max", "ecart_type", "metal_contenu", "recuperation",
      "metal_recuperable">>
C14_Metrics ==
    <<"Volume total (m3)", "Tonnage estime (tonnes)",
      "Densite moyenne (t/m3)", "Teneur moyenne (g/t)",
      "Teneur minimum (g/t)", "Teneur maximum (g/t)", "Ecart-type (g/t)",
      "Metal contenu (kg)", "Recuperation estimee (%)",
      "Metal recuperable (kg)">>
\* d is the delta of the block value b against the composite value c.
C14_IsDeltaOf(d, b, c) ==
    IF IsNaN(b) \/ IsNaN(c) THEN IsNaN(d)
    ELSE IF IsZero(c)
    THEN d = (IF IsZero(b) THEN NaN ELSE IF GtZero(b) THEN PosInf ELSE NegInf)
    ELSE C10_IsDelta(d, b, c)

\* C14: a generated report is one header row and ten metric rows, in the
\* order volume, tonnage, density, mean, minimum, maximum, standard
\* deviation, contained metal, recovery, recoverable metal; each row
\* carries the composite value, the block value and the delta of its own
\* metric.
C14_ReportRows ==
    (ComparedRecords /\ fn_out.page.report # None) =>
        /\ Len(fn_out.page.report.header) = 4
        /\ Len(fn_out.page.report.rows) = 10
        /\ \A i \in 1..10 :
              /\ fn_out.page.report.rows[i].metric = C14_Metrics[i]
              /\ fn_out.page.report.rows[i].composite.of
                    = fn_out.composite[C14_Fields[i]]
              /\ fn_out.page.report.rows[i].block.of
                    = fn_out.block[C14_Fields[i]]
              /\ C14_IsDeltaOf(fn_out.page.report.rows[i].diff.of,
                               fn_out.block[C14_Fields[i]],
                               fn_out.composite[C14_Fields[i]])

\* A report whose minimum and maximum rows carry different deltas.
C14_Witness ==
    /\ ComparedRecords
    /\ fn_out.page.report # None
    /\ IsNum(fn_out.page.report.rows[5].diff.of)
    /\ IsNum(fn_out.page.report.rows[6].diff.of)
    /\ fn_out.page.report.rows[5].diff.of # fn_out.page.report.rows[6].diff.of
    /\ fn_out.page.report.rows[5].composite.of # fn_out.page.report.rows[5].block.of

(***************************************************************************)
(* Further properties of the session.                                      *)
(***************************************************************************)
\* The step is a run of the import page without a button pressed.
ImportRun ==
    /\ view'.page = "import"
    /\ ~view'.applied
    /\ ~view'.example

\* C15: when reading the file of an uploader fails, the run reports the
\* error and leaves the dataset of that uploader, its column list, the
\* mapping and both statistics records as they were.
C15_FailedUploadChangesNothing ==
    [][/\ (ImportRun /\ view'.errors.composite) =>
              /\ composite_data' = composite_data
              /\ composite_columns' = composite_columns
              /\ mapping' = mapping
              /\ composite_stats' = composite_stats
              /\ block_stats' = block_stats
       /\ (ImportRun /\ view'.errors.block) =>
              /\ block_data' = block_data
              /\ block_columns' = block_columns
              /\ mapping' = mapping
              /\ composite_stats' = composite_stats
              /\ block_stats' = block_stats
       /\ (ImportRun /\ composite_file' # None
              /\ IsFault(ReadCsv(composite_file'))) => view'.errors.composite
       /\ (ImportRun /\ block_file' # None
              /\ IsFault(ReadCsv(block_file'))) => view'.errors.block]_vars

\* A file that cannot be read, put in the composite uploader of a session
\* that holds datasets, a mapping and statistics: the error is shown.
C15_Witness ==
    /\ view.page = "import"
    /\ ~view.applied
    /\ ~view.example
    /\ composite_file = EmptyFile
    /\ view.errors.composite
    /\ composite_data # None
    /\ mapping # None
    /\ composite_stats # None

\* C17: a stored statistics record is what calculate_statistics gives for
\* the dataset now stored and the grade column of the mapping now stored.
C17_StatsOfStoredData ==
    /\ composite_stats # None =>
          /\ mapping # None
          /\ composite_stats
                = CalculateStatistics(composite_data, mapping.composite.grade)
    /\ block_stats # None =>
          /\ mapping # None
          /\ block_stats = CalculateStatistics(block_data, mapping.block.grade)

\* A composite dataset replaced by an upload and still paired with the
\* statistics of the dataset it replaced.
C17_Witness ==
    /\ view.page = "import"
    /\ composite_file # None
    /\ ~view.errors.composite
    /\ composite_data = ReadCsv(composite_file)
    /\ composite_stats # None
    /\ mapping # None
    /\ composite_stats
          # CalculateStatistics(composite_data, mapping.composite.grade)

\* C18: mapping, composite_stats and block_stats are all unset or all set,
\* and when they are set both datasets are set.
C18_AllSetOrAllUnset ==
    \/ /\ mapping = None
       /\ composite_stats = None
       /\ block_stats = None
    \/ /\ mapping # None
       /\ composite_stats # None
       /\ block_stats # None
       /\ composite_data # None
       /\ block_data # None

\* "Appliquer et analyser" pressed on two uploaded files: everything set.
C18_Witness ==
    /\ view.page = "import"
    /\ view.applied
    /\ composite_file # None
    /\ block_file # None
    /\ mapping # None
    /\ composite_stats # None
    /\ block_stats # None

(***************************************************************************)
(* Property of calculate_statistics on a column without numeric value.     *)
(***************************************************************************)
\* The grade column asked for is there and none of its cells is a number or
\* reads as one.
C16_NoNumericValue ==
    /\ Returned
    /\ ~C3_NoSuchColumn
    /\ \A i \in 1..NRows(fn_in.df) :
          \/ IsNaN(Column(fn_in.df, fn_in.grade_column)[i])
          \/ /\ Column(fn_in.df, fn_in.grade_column)[i].k = "str"
             /\ ~IsNumeric(Column(fn_in.df, fn_in.grade_column)[i].s)

\* C16: when the grade column has no numeric value (no row, or no value
\* that reads as a number) calculate_statistics still returns a record, in
\* which mean, minimum, maximum, standard deviation, contained metal and
\* recoverable metal are the undefined value.
C16_UndefinedRecord ==
    C16_NoNumericValue =>
        /\ fn_out.result # None
        /\ DOMAIN fn_out.result = C3_TenFields
        /\ IsNaN(fn_out.result.teneur_moyenne)
        /\ IsNaN(fn_out.result.teneur_min)
        /\ IsNaN(fn_out.result.teneur_max)
        /\ IsNaN(fn_out.result.ecart_type)
        /\ IsNaN(fn_out.result.metal_contenu)
        /\ IsNaN(fn_out.result.metal_recuperable)
        /\ IsNum(fn_out.result.tonnage)

\* A record for a column of two cells, one text and one missing.
C16_Witness ==
    /\ C16_NoNumericValue
    /\ NRows(fn_in.df) = 2
    /\ fn_out.result # None
    /\ IsNaN(fn_out.result.teneur_moyenne)
    /\ IsNaN(fn_out.result.metal_recuperable)

====
